---- MODULE Spec2Model ----
(***************************************************************************)
(* The polymorphic output type layer of async-graphql: the Interface       *)
(* derive (derive/src/interface.rs), the code it generates (type           *)
(* registration, __typename introspection, field dispatch, fragment field  *)
(* collection), and the Apollo persisted queries extension                 *)
(* (src/extensions/apollo_persisted_queries.rs).                           *)
(***************************************************************************)
EXTENDS Integers, Sequences, FiniteSets, TLC

VARIABLES
    definition,     \* the declaration handed to the derive macro
    buildResult,    \* what generate returned for it, or NotBuilt
    schema,         \* the program's polymorphic types: ident -> generated implementation
    registry,       \* the schema registry under construction
    regCount,       \* ident -> how often its registration was asked for
    call,           \* the last introspection or collection call and its result
    epoch,          \* the program state a computed default reads
    bindArgs,       \* the declared arguments of the field being bound
    bindCall,       \* the last binding: what was supplied, when, and the result
    values,         \* the runtime values of the result tree
    tasks,          \* the dispatcher calls in flight, one per sibling field
    storage,        \* the persisted-query cache, most recently used first
    exchange,       \* the last request prepared and what came of it
    persisted       \* per hash, the queries stored under it since it was last absent

buildVars == <<definition, buildResult>>
registryVars == <<registry, regCount>>

bindVars == <<epoch, bindArgs, bindCall>>

dispatchVars == <<values, tasks>>

apqVars == <<storage, exchange, persisted>>

vars == <<definition, buildResult, schema, registry, regCount, call,
          epoch, bindArgs, bindCall, values, tasks, storage, exchange, persisted>>

----------------------------------------------------------------------------
(* Bounds *)

MaxVariants == 3        \* variants of one declaration
MaxFields == 1          \* interface fields of one declaration
MaxMembers == 2         \* variants of one polymorphic type of a schema
MaxRegisterCalls == 2   \* registrations asked for, per type
MaxFragments == 2       \* fragments of one selection set
MaxArgs == 2            \* declared arguments of one field
MaxEpoch == 2           \* changes of the state a computed default reads
NumTasks == 2           \* dispatcher calls in flight at once
StorageCap == 2         \* LruCacheStorage::new(cap)

----------------------------------------------------------------------------
(* The type universe *)

\* Concrete object types, named by the path a variant writes.
ConcreteTypes == {"A", "B"}

\* Polymorphic types, lowest first; a flattened variant names a lower one.
PolyNames == <<"G", "F", "U">>

PolySet == {PolyNames[i] : i \in 1..Len(PolyNames)}

Rank(n) == CHOOSE i \in 1..Len(PolyNames) : PolyNames[i] = n

\* The interface over the concrete object types.
NodeIdent == "Node"

TypeIdents == PolySet \cup {NodeIdent}

\* syn::Type::Path: a type written as a path; "&A" and "(A,B)" are not.
IsTypePath(ty) == ty \in ConcreteTypes \cup PolySet

NoValue == "None"

----------------------------------------------------------------------------
(* derive/src/interface.rs: generate *)

Err(msg, at) == [ok |-> FALSE, error |-> msg, at |-> at]

\* inflector's to_camel_case on the field and argument names in use.
to_camel_case(name) ==
    CASE name = "value_a" -> "valueA"
      [] name = "value_b" -> "valueB"
      [] name = "first_n" -> "firstN"
      [] OTHER -> name

\* syn::parse_str::<syn::Type>: fails on a malformed signature.
parse_type(ty) == ty # "<bad"

\* The variant loop with the seen set never filled: no duplicate is ever found.
RECURSIVE generate_variants_unseen(_, _, _, _)
generate_variants_unseen(s, i, enum_items, enum_names) ==
    IF i > Len(s) THEN [ok |-> TRUE, enum_names |-> enum_names]
    ELSE LET variant == s[i] IN
        IF variant.style = "Tuple" /\ Len(variant.tys) # 1
        THEN Err("Only single value variants are supported", i)
        ELSE IF variant.style = "Unit"
        THEN Err("Empty variants are not supported", i)
        ELSE IF variant.style = "Struct"
        THEN Err("Variants with named fields are not supported", i)
        ELSE LET ty == variant.tys[1] IN
            IF ~IsTypePath(ty) THEN Err("Invalid type", i)
            ELSE IF ty \in enum_items
            THEN Err("This type already used in another variant", i)
            ELSE generate_variants_unseen(s, i + 1, enum_items,
                    Append(enum_names,
                        [enum_name |-> i, p |-> ty, flatten |-> variant.flatten]))

\* A variant loop that looks for a repeated type before it looks at the shape.
RECURSIVE generate_variants_duplicate_first(_, _, _, _)
generate_variants_duplicate_first(s, i, enum_items, enum_names) ==
    IF i > Len(s) THEN [ok |-> TRUE, enum_names |-> enum_names]
    ELSE LET variant == s[i] IN
        IF \E n \in 1..Len(variant.tys) : variant.tys[n] \in enum_items
        THEN Err("This type already used in another variant", i)
        ELSE IF variant.style = "Tuple" /\ Len(variant.tys) # 1
        THEN Err("Only single value variants are supported", i)
        ELSE IF variant.style = "Unit"
        THEN Err("Empty variants are not supported", i)
        ELSE IF variant.style = "Struct"
        THEN Err("Variants with named fields are not supported", i)
        ELSE LET ty == variant.tys[1] IN
            IF ~IsTypePath(ty) THEN Err("Invalid type", i)
            ELSE generate_variants_duplicate_first(s, i + 1, enum_items \cup {ty},
                    Append(enum_names,
                        [enum_name |-> i, p |-> ty, flatten |-> variant.flatten]))

\* The variant loop, lines 43-105: shape, then path, then duplicate.
RECURSIVE generate_variants(_, _, _, _)
generate_variants(s, i, enum_items, enum_names) ==
    IF i > Len(s) THEN [ok |-> TRUE, enum_names |-> enum_names]
    ELSE LET variant == s[i] IN
        IF variant.style = "Tuple" /\ Len(variant.tys) # 1
        THEN Err("Only single value variants are supported", i)
        ELSE IF variant.style = "Unit"
        THEN Err("Empty variants are not supported", i)
        ELSE IF variant.style = "Struct"
        THEN Err("Variants with named fields are not supported", i)
        ELSE LET ty == variant.tys[1] IN
            IF ~IsTypePath(ty) THEN Err("Invalid type", i)
            ELSE IF ty \in enum_items
            THEN Err("This type already used in another variant", i)
            ELSE generate_variants(s, i + 1, enum_items \cup {ty},
                    Append(enum_names,
                        [enum_name |-> i, p |-> ty, flatten |-> variant.flatten]))

\* utils::generate_default: the declared default of an argument, a literal
\* or an expression computed when the default is needed.
generate_default(default, default_with) ==
    IF default # NoValue THEN [kind |-> "literal", expr |-> default]
    ELSE IF default_with # NoValue THEN [kind |-> "computed", expr |-> default_with]
    ELSE [kind |-> NoValue, expr |-> NoValue]

\* The argument loop of one field, lines 150-195.
RECURSIVE generate_args(_, _, _)
generate_args(args, j, out) ==
    IF j > Len(args) THEN [ok |-> TRUE, args |-> out]
    ELSE LET a == args[j] IN
        IF ~parse_type(a.ty) THEN Err("Expect type", j)
        ELSE generate_args(args, j + 1,
                Append(out, [ident |-> a.name,
                             name |-> to_camel_case(a.name),
                             ty |-> a.ty,
                             default |-> generate_default(a.default, a.default_with)]))

\* The field loop, lines 111-258.
RECURSIVE generate_fields(_, _, _)
generate_fields(fields, k, out) ==
    IF k > Len(fields) THEN [ok |-> TRUE, fields |-> out]
    ELSE LET f == fields[k] IN
        IF ~parse_type(f.ty) THEN Err("Expect type", k)
        ELSE LET as == generate_args(f.args, 1, <<>>) IN
            IF ~as.ok THEN as
            ELSE generate_fields(fields, k + 1,
                    Append(out,
                        [name |-> IF f.method # NoValue THEN f.name
                                  ELSE to_camel_case(f.name),
                         method_name |-> IF f.method # NoValue THEN f.method
                                         ELSE f.name,
                         ty |-> f.ty,
                         args |-> as.args]))

\* generate, lines 13-341: the expanded implementation, or the first error.
generate(interface_args) ==
    IF interface_args.data # "Enum"
    THEN Err("Interface can only be applied to an enum.", 0)
    ELSE LET vs == generate_variants(interface_args.variants, 1, {}, <<>>) IN
        IF ~vs.ok THEN vs
        ELSE LET fs == generate_fields(interface_args.fields, 1, <<>>) IN
            IF ~fs.ok THEN fs
            ELSE [ok |-> TRUE,
                  gql_typename |-> IF interface_args.name # NoValue
                                   THEN interface_args.name
                                   ELSE interface_args.ident,
                  enum_names |-> vs.enum_names,
                  fields |-> fs.fields,
                  extends |-> interface_args.extends]

\* The error family of a rejection.
DefinitionError(r) ==
    CASE r.error = "This type already used in another variant" -> "DuplicateMember"
      [] r.error \in {"Only single value variants are supported",
                      "Empty variants are not supported",
                      "Variants with named fields are not supported",
                      "Invalid type"}
            -> "InvalidMemberShape"
      [] r.error = "Expect type" -> "TypeParseError"
      [] OTHER -> "Other"

----------------------------------------------------------------------------
(* Declarations the macro can be handed *)

SeqsUpTo(S, n) == UNION {[1..m -> S] : m \in 0..n}

VariantShapes ==
    [style : {"Tuple"}, tys : {<<t>> : t \in ConcreteTypes \cup {"&A"}},
     flatten : {FALSE}]
    \cup [style : {"Tuple"}, tys : {<<"G">>, <<"U">>}, flatten : {TRUE}]
    \cup [style : {"Tuple"}, tys : {<<>>, <<"A", "B">>}, flatten : {FALSE}]
    \cup [style : {"Unit"}, tys : {<<>>}, flatten : {FALSE}]
    \cup [style : {"Struct"}, tys : {<<"A">>}, flatten : {FALSE}]

ArgSpecs ==
    [name : {"first_n"}, ty : {"i32", "<bad"}, default : {NoValue, "10"},
     default_with : {NoValue}]

FieldSpecs ==
    [name : {"value_a"}, method : {NoValue, "get_value"},
     ty : {"i32", "<bad"}, args : SeqsUpTo(ArgSpecs, 1)]

\* Every list of variants without fields, and every list of fields on at
\* most one variant: the field loop runs after the variant loop.
Definitions ==
    [ident : {"U"}, name : {NoValue}, data : {"Enum"},
     variants : SeqsUpTo(VariantShapes, MaxVariants),
     fields : {<<>>}, extends : {FALSE}]
    \cup [ident : {"U"}, name : {NoValue}, data : {"Enum"},
          variants : SeqsUpTo(VariantShapes, 1),
          fields : SeqsUpTo(FieldSpecs, MaxFields), extends : {FALSE}]
    \cup [ident : {"U"}, name : {NoValue, "Node"}, data : {"Enum", "Struct"},
          variants : {<<>>}, fields : {<<>>}, extends : BOOLEAN]

NotBuilt == [ok |-> FALSE, error |-> "not built", at |-> 0]

NoCall == [op |-> NoValue]

BuildInit ==
    /\ definition \in Definitions
    /\ buildResult = NotBuilt

Build ==
    /\ buildResult = NotBuilt
    /\ buildResult' = generate(definition)
    /\ UNCHANGED definition

----------------------------------------------------------------------------
(* The generated Type implementation: type_name, create_type_info *)

\* Type::type_name, lines 280-282; an object type is named by its path.
type_name(sch, p) == IF p \in ConcreteTypes THEN p ELSE sch[p].gql_typename

\* The schema name a Rust type signature registers under.
scalar_type_name(ty) == "Int"

\* Type::qualified_type_name of a signature: non-null unless an Option.
qualified_type_name(ty) ==
    IF ty = "Option<i32>" THEN "Int" ELSE "Int!"

\* OutputType::value_type, lines 212-217: the value type of FieldResult<T> is T.
value_type(ty) == IF ty = "FieldResult<i32>" THEN "i32" ELSE ty

EmptyRegistry ==
    [types |-> <<>>, implements |-> <<>>, error |-> NoValue]

IsRegistered(reg, name) == name \in DOMAIN reg.types

\* Registry::create_type: store `ty` under `name` unless the name is taken;
\* `built` is the registry as the type's closure left it.
create_type(reg, name, built, ty) ==
    IF IsRegistered(reg, name) THEN reg
    ELSE [built EXCEPT !.types = (name :> ty) @@ built.types]

\* Registry::add_implements: `ty` implements `interface`.
add_implements(reg, ty, interface) ==
    [reg EXCEPT !.implements =
        (ty :> ((IF ty \in DOMAIN reg.implements THEN reg.implements[ty] ELSE {})
                \cup {interface})) @@ reg.implements]

MetaObject(name) ==
    [kind |-> "Object", name |-> name, fields |-> <<>>,
     possible_types |-> <<>>, extends |-> FALSE]

MetaScalar(name) ==
    [kind |-> "Scalar", name |-> name, fields |-> <<>>,
     possible_types |-> <<>>, extends |-> FALSE]

\* create_type_info of a concrete object type and of a scalar.
object_create_type_info(reg, p) == create_type(reg, p, reg, MetaObject(p))

scalar_create_type_info(reg, ty) ==
    create_type(reg, scalar_type_name(ty), reg, MetaScalar(scalar_type_name(ty)))

\* IndexSet::insert: append unless present.
IndexSetInsert(set, x) ==
    IF \E i \in 1..Len(set) : set[i] = x THEN set ELSE Append(set, x)

RECURSIVE IndexSetExtend(_, _)
IndexSetExtend(set, xs) ==
    IF xs = <<>> THEN set
    ELSE IndexSetExtend(IndexSetInsert(set, Head(xs)), Tail(xs))

RECURSIVE possible_types(_, _)
RECURSIVE possible_types_from(_, _, _, _)

\* A flattened variant contributes the possible types of the type it names.
flatten_possible_types(sch, p, acc) ==
    IndexSetExtend(acc, possible_types(sch, sch[p]))

\* A direct variant that contributes the declaring type's own name.
possible_types_own_name(sch, d, variant, acc) ==
    IndexSetInsert(acc, d.gql_typename)

\* Lines 91-93: a direct variant contributes the name of its type.
possible_types_insert(sch, d, variant, acc) ==
    IndexSetInsert(acc, type_name(sch, variant.p))

possible_types_from(sch, d, i, acc) ==
    IF i > Len(d.enum_names) THEN acc
    ELSE LET variant == d.enum_names[i] IN
        possible_types_from(sch, d, i + 1,
            IF variant.flatten THEN flatten_possible_types(sch, variant.p, acc)
            ELSE possible_types_insert(sch, d, variant, acc))

\* Lines 300-304: the possible_types set of the registered type.
possible_types(sch, d) == possible_types_from(sch, d, 1, <<>>)

RECURSIVE create_type_info(_, _, _)
RECURSIVE registry_types(_, _, _, _)

\* Lines 86-89: every variant's type is registered, and recorded as an
\* implementer of this type.
registry_types(reg, sch, d, i) ==
    IF i > Len(d.enum_names) THEN reg
    ELSE LET variant == d.enum_names[i]
             r1 == create_type_info(reg, sch, variant.p)
         IN registry_types(
                IF variant.flatten THEN r1
                ELSE add_implements(r1, type_name(sch, variant.p), d.gql_typename),
                sch, d, i + 1)

\* Lines 180-185: the default as the schema shows it, when there is one.
schema_default(default) ==
    IF default.kind = NoValue THEN NoValue ELSE default.expr

\* Lines 186-194: the argument entries of one field.
schema_args(f) ==
    [j \in 1..Len(f.args) |->
        [name |-> f.args[j].name,
         ty |-> qualified_type_name(f.args[j].ty),
         default_value |-> schema_default(f.args[j].default)]]

\* Lines 228-244: the field entries.
schema_fields(d) ==
    [k \in 1..Len(d.fields) |->
        [name |-> d.fields[k].name,
         args |-> schema_args(d.fields[k]),
         ty |-> qualified_type_name(value_type(d.fields[k].ty))]]

\* The argument and return types of the fields are registered as well.
RECURSIVE register_field_types(_, _, _)
register_field_types(reg, d, k) ==
    IF k > Len(d.fields) THEN reg
    ELSE register_field_types(
            scalar_create_type_info(reg, value_type(d.fields[k].ty)), d, k + 1)

\* Lines 292-307: the entry stored for the type.
MetaInterface(sch, d) ==
    [kind |-> "Interface", name |-> d.gql_typename,
     fields |-> schema_fields(d),
     possible_types |-> possible_types(sch, d),
     extends |-> d.extends]

\* Lines 289-308, the closure handed to create_type: the registry with the
\* variants' and the fields' types registered, and this type's entry.
type_info_registry(reg, sch, d) ==
    register_field_types(registry_types(reg, sch, d, 1), d, 1)

\* A registration that refuses a name that is already there.
create_type_info_strict(reg, sch, T) ==
    IF T \in ConcreteTypes THEN object_create_type_info(reg, T)
    ELSE IF IsRegistered(reg, sch[T].gql_typename)
    THEN [reg EXCEPT !.error = "type registered twice"]
    ELSE create_type(reg, sch[T].gql_typename,
                     type_info_registry(reg, sch, sch[T]),
                     MetaInterface(sch, sch[T]))

\* Lines 288-309: create_type_info.
create_type_info(reg, sch, T) ==
    IF T \in ConcreteTypes THEN object_create_type_info(reg, T)
    ELSE create_type(reg, sch[T].gql_typename,
                     type_info_registry(reg, sch, sch[T]),
                     MetaInterface(sch, sch[T]))

----------------------------------------------------------------------------
(* Runtime values and the generated dispatch on them *)

\* A value is the sequence of its layers, outermost first: the enum
\* variants it is wrapped in, then the concrete object itself (tag 0).
Object(p) == << [ty |-> p, tag |-> 0] >>

\* The static type of a value, the variant it holds, and what that wraps.
TypeOf(v) == v[1].ty

TagOf(v) == v[1].tag

Payload(v) == Tail(v)

\* Lines 76-83, From<#p> for #ident: the value wrapped in the variant of its type.
from(sch, T, obj) ==
    << [ty |-> T,
        tag |-> CHOOSE i \in 1..Len(sch[T].enum_names) :
                    sch[T].enum_names[i].p = TypeOf(obj)] >> \o obj

\* Every value of a type: an object, or a value of a variant's type, wrapped.
RECURSIVE ValuesOf(_, _)
ValuesOf(sch, T) ==
    IF T \in ConcreteTypes THEN {Object(T)}
    ELSE UNION {{from(sch, T, o) : o \in ValuesOf(sch, sch[T].enum_names[i].p)}
                : i \in 1..Len(sch[T].enum_names)}

RuntimeValues(sch) == UNION {ValuesOf(sch, T) : T \in TypeIdents}

RECURSIVE introspection_type_name(_, _)

\* A flattened variant answers with the typename of the value it wraps.
flatten_introspection_typename(sch, obj) == introspection_type_name(sch, obj)

\* A match arm that answers with the declaring type's own name.
get_introspection_typename_own(sch, d, variant) == d.gql_typename

\* Lines 95-97: the match arm of a direct variant, the name of its type.
get_introspection_typename(sch, d, variant) == type_name(sch, variant.p)

\* Lines 260-286: introspection_type_name, a match on self.
introspection_type_name(sch, self) ==
    LET d == sch[TypeOf(self)]
        variant == d.enum_names[TagOf(self)]
    IN  IF variant.flatten THEN flatten_introspection_typename(sch, Payload(self))
        ELSE get_introspection_typename(sch, d, variant)

\* The field collection of a concrete object: the fields of the fragments
\* whose type condition is the object's type, pushed in selection order.
RECURSIVE object_collect_all_fields(_, _, _)
object_collect_all_fields(obj, selection_set, fields) ==
    IF selection_set = <<>> THEN fields
    ELSE object_collect_all_fields(obj, Tail(selection_set),
            IF Head(selection_set).type_condition = TypeOf(obj)
            THEN fields \o Head(selection_set).fields
            ELSE fields)

\* A dispatch that goes one variant down and no further: it collects on
\* what the outermost variant wraps as if that were the object.
collect_all_fields_first(sch, self, selection_set, fields) ==
    IF TypeOf(self) \in ConcreteTypes
    THEN object_collect_all_fields(self, selection_set, fields)
    ELSE object_collect_all_fields(Payload(self), selection_set, fields)

\* Lines 99-101, 323-327: collect_all_fields, a match on self that hands
\* the call to the wrapped value.
RECURSIVE collect_all_fields(_, _, _, _)
collect_all_fields(sch, self, selection_set, fields) ==
    IF TypeOf(self) \in ConcreteTypes
    THEN object_collect_all_fields(self, selection_set, fields)
    ELSE collect_all_fields(sch, Payload(self), selection_set, fields)

----------------------------------------------------------------------------
(* Argument binding: get_params *)

\* Input values: an integer, or null.
IntValue(n) == [null |-> FALSE, n |-> n]

NullValue == [null |-> TRUE, n |-> 0]

\* The literal a default is written as, read as a value.
literal_value(expr) == IF expr = "10" THEN IntValue(10) ELSE IntValue(0)

\* The value of a default_with expression: it reads the program's state
\* (`env`) at the moment it is evaluated.
computed_value(expr, env) == IntValue(20 + env)

\* The closure `|| -> #ty { #default }`, called.
call_default(default, env) ==
    IF default.kind = "literal" THEN literal_value(default.expr)
    ELSE computed_value(default.expr, env)

IsOptional(ty) == ty = "Option<i32>"

NoError ==
    [kind |-> NoValue, field_name |-> NoValue, object |-> NoValue,
     argument |-> NoValue, inner |-> NoValue, pos |-> 0, path |-> <<>>]

\* Context::param_value: the supplied value, else the default, else absent
\* when the type allows it, else a failure at the field's position.
param_value(ctx, name, ty, get_default, env) ==
    IF name \in DOMAIN ctx.arguments
    THEN [ok |-> TRUE, value |-> ctx.arguments[name], error |-> NoError]
    ELSE IF get_default.kind # NoValue
    THEN [ok |-> TRUE, value |-> call_default(get_default, env), error |-> NoError]
    ELSE IF ~IsOptional(ty)
    THEN [ok |-> FALSE, value |-> NullValue,
          error |-> [NoError EXCEPT !.kind = "MissingRequiredArgument",
                                    !.argument = name, !.pos = ctx.pos]]
    ELSE [ok |-> TRUE, value |-> NullValue, error |-> NoError]

\* A binding that passes no default on.
get_default_none(a) == [kind |-> NoValue, expr |-> NoValue]

\* Lines 168-171: Some(closure over the declared default), or None.
get_default(a) == a.default

\* Lines 172-174, 253: the declared arguments bound one after the other; the
\* first failure returns from resolve_field.
RECURSIVE get_params(_, _, _, _, _)
get_params(args, j, ctx, env, bound) ==
    IF j > Len(args) THEN [ok |-> TRUE, params |-> bound, error |-> NoError]
    ELSE LET a == args[j]
             r == param_value(ctx, a.name, a.ty, get_default(a), env)
         IN IF ~r.ok THEN [ok |-> FALSE, params |-> bound, error |-> r.error]
            ELSE get_params(args, j + 1, ctx, env,
                            Append(bound, [ident |-> a.ident, value |-> r.value]))

----------------------------------------------------------------------------
(* The generated ContainerType implementation: resolve_field *)

Event(ev, what) == [ev |-> ev, what |-> what]

\* One "bind" event per bound argument, in the order they were bound.
BindEvents(params) == [j \in 1..Len(params) |-> Event("bind", params[j].ident)]

NoResultValue ==
    [obj |-> NoValue, method |-> NoValue, params |-> <<>>,
     selection_set |-> <<>>, typename |-> NoValue, fields |-> <<>>]

Pending == [ok |-> FALSE, value |-> NoResultValue, error |-> NoError]

Failure(error) == [ok |-> FALSE, value |-> NoResultValue, error |-> error]

Success(value) == [ok |-> TRUE, value |-> value, error |-> NoError]

\* Lines 197-201, 219-226: the method matches on self and calls the wrapped
\* object's method of the same name.
RECURSIVE method_target(_, _)
method_target(sch, self) ==
    IF TypeOf(self) \in ConcreteTypes THEN self
    ELSE method_target(sch, Payload(self))

\* The requested field among the resolvers, in declaration order; 0 if none.
MatchField(d, name) ==
    IF \E k \in 1..Len(d.fields) : d.fields[k].name = name
    THEN CHOOSE k \in 1..Len(d.fields) :
            /\ d.fields[k].name = name
            /\ \A i \in 1..(k - 1) : d.fields[i].name # name
    ELSE 0

\* A resolver that calls the method first and binds afterwards.
resolvers_call_first(sch, self, f, ctx, env) ==
    LET b == get_params(f.args, 1, ctx, env, <<>>) IN
        IF ~b.ok
        THEN [pc |-> "done", result |-> Failure(b.error), params |-> b.params,
              trace |-> <<Event("invoke", f.method_name)>> \o BindEvents(b.params)]
        ELSE [pc |-> "resolver", result |-> Pending, params |-> b.params,
              trace |-> <<Event("invoke", f.method_name)>> \o BindEvents(b.params)]

\* Lines 251-257, one resolver up to the await of the method: the arguments
\* are bound, then the method is called with them.
resolvers(sch, self, f, ctx, env) ==
    LET b == get_params(f.args, 1, ctx, env, <<>>) IN
        IF ~b.ok
        THEN [pc |-> "done", result |-> Failure(b.error), params |-> b.params,
              trace |-> BindEvents(b.params)]
        ELSE [pc |-> "resolver", result |-> Pending, params |-> b.params,
              trace |-> BindEvents(b.params) \o <<Event("invoke", f.method_name)>>]

FieldNotFound(field_name, object, pos) ==
    [NoError EXCEPT !.kind = "FieldNotFound", !.field_name = field_name,
                    !.object = object, !.pos = pos]

\* A FieldNotFound that names the concrete member instead of the interface.
resolve_field_names_member(sch, self, ctx, env) ==
    LET d == sch[TypeOf(self)]
        k == MatchField(d, ctx.name)
    IN  IF k # 0 THEN resolvers(sch, self, d.fields[k], ctx, env)
        ELSE [pc |-> "done", params |-> <<>>, trace |-> <<>>,
              result |-> Failure(FieldNotFound(ctx.name,
                            introspection_type_name(sch, self), ctx.pos))]

\* Lines 315-321: resolve_field up to its first await.
resolve_field(sch, self, ctx, env) ==
    LET d == sch[TypeOf(self)]
        k == MatchField(d, ctx.name)
    IN  IF k # 0 THEN resolvers(sch, self, d.fields[k], ctx, env)
        ELSE [pc |-> "done", params |-> <<>>, trace |-> <<>>,
              result |-> Failure(FieldNotFound(ctx.name, d.gql_typename, ctx.pos))]

\* What the object's resolver returns: its own value, or its own failure.
resolver_value(obj, method, params) ==
    [NoResultValue EXCEPT !.obj = TypeOf(obj), !.method = method, !.params = params]

\* A resolve_obj that turns the method's failure into an empty value.
resolve_obj_masked(sch, self, f, ctx, params, outcome) ==
    IF outcome # "ok"
    THEN Success(NoResultValue)
    ELSE Success(resolver_value(method_target(sch, self), f.method_name, params))

\* Lines 246-249, resolve_obj once the method returned: its failure is
\* wrapped with the field's position and path, and returned by the `?`.
resolve_obj(sch, self, f, ctx, params, outcome) ==
    IF outcome # "ok"
    THEN Failure([NoError EXCEPT !.kind = "Resolver", !.inner = outcome,
                                 !.pos = ctx.pos, !.path = ctx.path])
    ELSE Success(resolver_value(method_target(sch, self), f.method_name, params))

\* OutputValueType::resolve of the returned value against the field's own
\* selection set.
output_resolve(value, selection_set) ==
    Success([value EXCEPT !.selection_set = selection_set])

----------------------------------------------------------------------------
(* The programs: concrete objects A and B, unions G, F, U (F may flatten G,  *)
(* U may flatten G and F), and the interface Node over the objects.        *)

\* What a variant of the union at rank r may name.
MemberChoices(r) ==
    [style : {"Tuple"}, tys : {<<t>> : t \in ConcreteTypes}, flatten : {FALSE}]
    \cup [style : {"Tuple"},
          tys : {<<PolyNames[i]>> : i \in 1..(r - 1)}, flatten : {TRUE}]

UnionDefinitions(r) ==
    [ident : {PolyNames[r]}, name : {NoValue}, data : {"Enum"},
     variants : SeqsUpTo(MemberChoices(r), MaxMembers),
     fields : {<<>>}, extends : {FALSE}]

NodeFields ==
    {<<>>,
     << [name |-> "id", method |-> NoValue, ty |-> "i32", args |-> <<>>] >>,
     << [name |-> "id", method |-> NoValue, ty |-> "i32", args |-> <<>>],
        [name |-> "value_a", method |-> NoValue, ty |-> "FieldResult<i32>",
         args |-> << [name |-> "first_n", ty |-> "i32", default |-> "10",
                      default_with |-> NoValue] >>] >>,
     << [name |-> "id", method |-> NoValue, ty |-> "i32", args |-> <<>>],
        [name |-> "value_a", method |-> NoValue, ty |-> "FieldResult<i32>",
         args |-> << [name |-> "first_n", ty |-> "i32", default |-> "10",
                      default_with |-> NoValue] >>],
        [name |-> "value_b", method |-> NoValue, ty |-> "i32",
         args |-> << [name |-> "first_n", ty |-> "i32", default |-> "10",
                      default_with |-> NoValue],
                     [name |-> "limit", ty |-> "i32", default |-> NoValue,
                      default_with |-> NoValue] >>] >>}

NodeDefinitions ==
    [ident : {NodeIdent}, name : {NoValue, "Entity"}, data : {"Enum"},
     variants : {<< [style |-> "Tuple", tys |-> <<"A">>, flatten |-> FALSE],
                    [style |-> "Tuple", tys |-> <<"B">>, flatten |-> FALSE] >>},
     fields : NodeFields, extends : BOOLEAN]

\* The implementations the macro generates: rejected declarations are no program.
Generated(defs) == {generate(d) : d \in {x \in defs : generate(x).ok}}

UnionImpls(r) == Generated(UnionDefinitions(r))

NodeImpls == Generated(NodeDefinitions)

DefaultNode ==
    generate([ident |-> NodeIdent, name |-> NoValue, data |-> "Enum",
              variants |-> << [style |-> "Tuple", tys |-> <<"A">>, flatten |-> FALSE],
                              [style |-> "Tuple", tys |-> <<"B">>, flatten |-> FALSE] >>,
              fields |-> <<>>, extends |-> FALSE])

Schemas ==
    {[n \in TypeIdents |->
        CASE n = "G" -> g [] n = "F" -> f [] n = "U" -> u [] OTHER -> DefaultNode]
     : g \in UnionImpls(1), f \in UnionImpls(2), u \in UnionImpls(3)}

DefaultSchema ==
    CHOOSE sch \in Schemas :
        /\ Len(sch["G"].enum_names) = 1 /\ sch["G"].enum_names[1].p = "A"
        /\ Len(sch["F"].enum_names) = 2
        /\ sch["F"].enum_names[1].p = "G" /\ sch["F"].enum_names[2].p = "B"
        /\ Len(sch["U"].enum_names) = 1 /\ sch["U"].enum_names[1].p = "F"

NodeSchemas == {[DefaultSchema EXCEPT ![NodeIdent] = nd] : nd \in NodeImpls}

RegistryIdle ==
    /\ registry = EmptyRegistry
    /\ regCount = [n \in TypeIdents |-> 0]

BuildIdle ==
    /\ definition = NoValue
    /\ buildResult = NotBuilt

NoBindCall == [supplied |-> <<>>, epoch |-> 0, done |-> FALSE]

DispatchIdle ==
    /\ values = <<>>
    /\ tasks = <<>>

ApqIdle ==
    /\ storage = <<>>
    /\ exchange = <<>>
    /\ persisted = <<>>

BindIdle ==
    /\ epoch = 0
    /\ bindArgs = <<>>
    /\ bindCall = NoBindCall

----------------------------------------------------------------------------
(* Building one declaration *)

SpecBuildInit ==
    /\ BuildInit
    /\ schema = DefaultSchema
    /\ RegistryIdle
    /\ call = NoCall
    /\ BindIdle
    /\ DispatchIdle
    /\ ApqIdle

BuildNext == Build /\ UNCHANGED <<schema, registry, regCount, call, bindVars, dispatchVars, apqVars>>

SpecBuild == SpecBuildInit /\ [][BuildNext]_vars

(* C2: duplicate members *)

Built == buildResult # NotBuilt

\* The type a variant refers to: the payload of a single-payload variant.
HasMemberRef(v) == v.style = "Tuple" /\ Len(v.tys) = 1

\* Variant j repeats the type reference of an earlier variant.
RepeatsEarlier(vs, j) ==
    /\ HasMemberRef(vs[j])
    /\ \E i \in 1..(j - 1) : HasMemberRef(vs[i]) /\ vs[i].tys = vs[j].tys

HasDuplicate(vs) == \E j \in 1..Len(vs) : RepeatsEarlier(vs, j)

FirstDuplicate(vs) ==
    CHOOSE j \in 1..Len(vs) :
        RepeatsEarlier(vs, j) /\ \A k \in 1..(j - 1) : ~RepeatsEarlier(vs, k)

\* A single-payload variant whose payload is written as a path.
WellShaped(v) == HasMemberRef(v) /\ IsTypePath(v.tys[1])

\* C2 as stated: whenever a member repeats the type reference of an earlier
\* member, build fails with DuplicateMember, reported at the first duplicate.
C2_DuplicateAlwaysReported ==
    (Built /\ HasDuplicate(definition.variants)) =>
        /\ ~buildResult.ok
        /\ DefinitionError(buildResult) = "DuplicateMember"
        /\ buildResult.at = FirstDuplicate(definition.variants)

\* C2, amended: whenever a member repeats the type reference of an earlier
\* member, build produces no descriptor; the error is DuplicateMember at the
\* first duplicate in declaration order when every member up to and including
\* it is a single path-typed payload, and otherwise it is the error of the
\* first ill-formed member, which comes before the duplicate.
C2_DuplicateMember ==
    (Built /\ HasDuplicate(definition.variants)) =>
        LET vs == definition.variants
            j == FirstDuplicate(vs)
        IN  /\ ~buildResult.ok
            /\ (\A k \in 1..j : WellShaped(vs[k])) =>
                    /\ DefinitionError(buildResult) = "DuplicateMember"
                    /\ buildResult.at = j
            /\ (\E k \in 1..j : ~WellShaped(vs[k])) =>
                    /\ DefinitionError(buildResult) # "DuplicateMember"
                    /\ buildResult.at =
                        CHOOSE k \in 1..j :
                            ~WellShaped(vs[k]) /\ \A m \in 1..(k - 1) : WellShaped(vs[m])

\* Three well-shaped members, the third repeating the first: rejected there.
C2_Witness ==
    /\ Built
    /\ Len(definition.variants) = 3
    /\ \A k \in 1..3 : WellShaped(definition.variants[k])
    /\ definition.variants[1].tys # definition.variants[2].tys
    /\ definition.variants[3].tys = definition.variants[1].tys
    /\ ~buildResult.ok
    /\ buildResult.error = "This type already used in another variant"
    /\ buildResult.at = 3

(* C11: the shape of a member *)

\* What is wrong with the shape of a variant, if anything: no payload, more
\* than one, named sub-fields, or a payload that is no bare type path.
ShapeError(v) ==
    CASE v.style = "Unit" -> "Empty variants are not supported"
      [] v.style = "Struct" -> "Variants with named fields are not supported"
      [] v.style = "Tuple" /\ Len(v.tys) # 1 -> "Only single value variants are supported"
      [] ~IsTypePath(v.tys[1]) -> "Invalid type"
      [] OTHER -> NoValue

\* Variant j names a type that an earlier well-shaped variant took.
SharesType(vs, j) ==
    \E i \in 1..(j - 1), n \in 1..Len(vs[j].tys) :
        ShapeError(vs[i]) = NoValue /\ vs[j].tys[n] = vs[i].tys[1]

Offending(vs, j) == ShapeError(vs[j]) # NoValue \/ SharesType(vs, j)

FirstOffending(vs) ==
    CHOOSE j \in 1..Len(vs) :
        Offending(vs, j) /\ \A k \in 1..(j - 1) : ~Offending(vs, k)

\* C11: a definition with an ill-shaped member yields no descriptor, and the
\* error is the one of the first offending member in declaration order: if
\* that member is ill-shaped the error is InvalidMemberShape with the
\* message of its shape, also when it names a type already taken; only a
\* well-shaped earlier duplicate is reported as DuplicateMember instead.
C11_InvalidMemberShape ==
    (Built /\ \E j \in 1..Len(definition.variants) :
                    ShapeError(definition.variants[j]) # NoValue) =>
        LET vs == definition.variants
            k == FirstOffending(vs)
        IN  /\ ~buildResult.ok
            /\ buildResult.at = k
            /\ ShapeError(vs[k]) # NoValue =>
                /\ DefinitionError(buildResult) = "InvalidMemberShape"
                /\ buildResult.error = ShapeError(vs[k])
            /\ ShapeError(vs[k]) = NoValue =>
                DefinitionError(buildResult) = "DuplicateMember"

\* A then B then a variant with the two payloads A and B: the third member
\* is rejected for its shape, not as a duplicate.
C11_Witness ==
    /\ Built
    /\ Len(definition.variants) = 3
    /\ definition.variants[3].tys = <<"A", "B">>
    /\ SharesType(definition.variants, 3)
    /\ FirstOffending(definition.variants) = 3
    /\ ~buildResult.ok
    /\ buildResult.at = 3
    /\ DefinitionError(buildResult) = "InvalidMemberShape"

\* A unit variant, and a variant with named sub-fields, each as the first
\* offending member.
C11_WitnessUnit ==
    /\ Built /\ ~buildResult.ok
    /\ buildResult.at = 1
    /\ Len(definition.variants) >= 1
    /\ definition.variants[1].style = "Unit"

C11_WitnessStruct ==
    /\ Built /\ ~buildResult.ok
    /\ buildResult.at = 2
    /\ Len(definition.variants) >= 2
    /\ definition.variants[2].style = "Struct"

(* C12: a flatten cycle *)

\* The definition flattens the type it declares: the shortest flatten cycle.
FlattensItself(d) ==
    \E j \in 1..Len(d.variants) :
        /\ d.variants[j].flatten
        /\ d.variants[j].tys = <<d.ident>>

\* C12, its second part as stated: a definition whose flatten references
\* form a cycle is rejected at build time with CyclicFlatten.
C12_CyclicFlattenRejected ==
    (Built /\ FlattensItself(definition)) =>
        /\ ~buildResult.ok
        /\ DefinitionError(buildResult) = "CyclicFlatten"

\* What generate does with it: a definition that flattens itself and has
\* nothing else wrong with it is expanded like any other.
CyclicFlattenExpanded ==
    (Built /\ FlattensItself(definition)
           /\ \A j \in 1..Len(definition.variants) : ~Offending(definition.variants, j)
           /\ \A k \in 1..Len(definition.fields) :
                /\ parse_type(definition.fields[k].ty)
                /\ \A a \in 1..Len(definition.fields[k].args) :
                        parse_type(definition.fields[k].args[a].ty)) =>
        buildResult.ok

\* U with the members A and, flattened, U itself: built without an error.
C12_Witness ==
    /\ Built
    /\ Len(definition.variants) = 2
    /\ definition.variants[1].tys = <<"A">>
    /\ definition.variants[2] = [style |-> "Tuple", tys |-> <<"U">>, flatten |-> TRUE]
    /\ definition.fields = <<>>
    /\ buildResult.ok
    /\ Len(buildResult.enum_names) = 2

----------------------------------------------------------------------------
(* Schema construction: registering the types *)

\* SchemaBuilder::register_type::<T>(), tests/union.rs line 133.
register_type(T) ==
    /\ regCount[T] < MaxRegisterCalls
    /\ registry' = create_type_info(registry, schema, T)
    /\ regCount' = [regCount EXCEPT ![T] = @ + 1]

SpecRegistryInit ==
    /\ BuildIdle
    /\ schema \in Schemas \cup NodeSchemas
    /\ RegistryIdle
    /\ call = NoCall
    /\ BindIdle
    /\ DispatchIdle
    /\ ApqIdle

RegistryNext ==
    /\ \E T \in TypeIdents : register_type(T)
    /\ UNCHANGED <<definition, buildResult, schema, call, bindVars, dispatchVars, apqVars>>

SpecRegistry == SpecRegistryInit /\ [][RegistryNext]_vars

(* C1: registration is idempotent *)

\* C1: however often and in whatever order the types were registered, no
\* registration failed, and the registry holds for each registered
\* polymorphic type the entry that registering it alone, once, stores.
C1_IdempotentRegistration ==
    /\ registry.error = NoValue
    /\ \A T \in TypeIdents :
        regCount[T] > 0 =>
            /\ IsRegistered(registry, schema[T].gql_typename)
            /\ registry.types[schema[T].gql_typename] =
                create_type_info(EmptyRegistry, schema, T).types[schema[T].gql_typename]

\* A union registered twice, after a type that flattens it was registered.
C1_Witness ==
    /\ regCount["G"] = 2
    /\ regCount["F"] >= 1
    /\ \E i \in 1..Len(schema["F"].enum_names) : schema["F"].enum_names[i].p = "G"
    /\ IsRegistered(registry, "G")
    /\ Len(registry.types["G"].possible_types) = 2

(* C5: possible types *)

Range(seq) == {seq[i] : i \in 1..Len(seq)}

NoDuplicates(seq) == \A i, j \in 1..Len(seq) : seq[i] = seq[j] => i = j

\* The types a set of types flattens, that set included.
FlattenStep(sch, S) ==
    S \cup {v.p : v \in UNION {{v \in Range(sch[n].enum_names) : v.flatten} : n \in S}}

RECURSIVE FlattenClosure(_, _, _)
FlattenClosure(sch, S, k) ==
    IF k = 0 THEN S ELSE FlattenClosure(sch, FlattenStep(sch, S), k - 1)

\* Every type reached from T through flattened variants, at any depth.
FlattenReach(sch, T) == FlattenClosure(sch, {T}, Cardinality(TypeIdents))

\* The concrete types declared directly by T or by a type it reaches.
LeafTypes(sch, T) ==
    {type_name(sch, v.p) :
        v \in UNION {{v \in Range(sch[n].enum_names) : ~v.flatten}
                     : n \in FlattenReach(sch, T)}}

\* C5: the possible_types stored for a registered polymorphic type are
\* exactly the concrete type names reached by expanding its flattened
\* variants at every depth: none missing, no polymorphic name, none twice.
C5_PossibleTypes ==
    \A T \in TypeIdents :
        IsRegistered(registry, schema[T].gql_typename) =>
            LET pt == registry.types[schema[T].gql_typename].possible_types IN
                /\ Range(pt) = LeafTypes(schema, T)
                /\ Range(pt) \subseteq ConcreteTypes
                /\ NoDuplicates(pt)

\* U flattens F, F flattens G: two levels; B is reached along two paths.
C5_Witness ==
    /\ IsRegistered(registry, "U")
    /\ \E i \in 1..Len(schema["U"].enum_names) :
        schema["U"].enum_names[i].flatten /\ schema["U"].enum_names[i].p = "F"
    /\ \E i \in 1..Len(schema["F"].enum_names) :
        schema["F"].enum_names[i].flatten /\ schema["F"].enum_names[i].p = "G"
    /\ Range(schema["G"].enum_names) =
        {[enum_name |-> 1, p |-> "A", flatten |-> FALSE],
         [enum_name |-> 2, p |-> "B", flatten |-> FALSE]}
    /\ \E i \in 1..Len(schema["U"].enum_names) : schema["U"].enum_names[i].p = "B"
    /\ Range(registry.types["U"].possible_types) = {"A", "B"}
    /\ Len(registry.types["U"].possible_types) = 2

----------------------------------------------------------------------------
(* Calls on runtime values: __typename and fragment field collection *)

\* Selection sets: fragments on the concrete types, as tests/union.rs 219-230.
Fragments ==
    {[type_condition |-> "A", fields |-> <<"valueA", "valueB">>],
     [type_condition |-> "A", fields |-> <<"valueB">>],
     [type_condition |-> "B", fields |-> <<"valueA">>]}

SelectionSets == SeqsUpTo(Fragments, MaxFragments)

\* U flattens F and F flattens G: a value of U may be wrapped three deep.
NestedSchemas ==
    {sch \in Schemas :
        /\ \E i \in 1..Len(sch["U"].enum_names) : sch["U"].enum_names[i].p = "F"
        /\ \E i \in 1..Len(sch["F"].enum_names) : sch["F"].enum_names[i].p = "G"}

typename_call(self) ==
    call' = [op |-> "introspection_type_name", self |-> self,
             selection_set |-> <<>>, fields |-> <<>>,
             result |-> introspection_type_name(schema, self)]

collect_call(self, selection_set, fields) ==
    call' = [op |-> "collect_all_fields", self |-> self,
             selection_set |-> selection_set, fields |-> fields,
             result |-> collect_all_fields(schema, self, selection_set, fields)]

SpecCallsInit ==
    /\ BuildIdle
    /\ schema \in NestedSchemas \cup NodeSchemas
    /\ RegistryIdle
    /\ call = NoCall
    /\ BindIdle
    /\ DispatchIdle
    /\ ApqIdle

CallsNext ==
    /\ call = NoCall
    /\ \/ \E self \in RuntimeValues(schema) : typename_call(self)
       \/ \E self \in RuntimeValues(schema), sel \in SelectionSets :
            collect_call(self, sel, <<"__typename">>)
    /\ UNCHANGED <<definition, buildResult, schema, registry, regCount, bindVars, dispatchVars, apqVars>>

SpecCalls == SpecCallsInit /\ [][CallsNext]_vars

\* The concrete object a value wraps, however deep.
LeafObject(v) == v[Len(v)]

Depth(v) == Len(v) - 1

\* The polymorphic types a value is wrapped in, outermost included.
Wrappers(v) == {v[i].ty : i \in 1..(Len(v) - 1)}

(* C3: __typename *)

\* C3: introspection_type_name of a value is the schema name of the concrete
\* object the value wraps at whatever depth, never the name of the
\* polymorphic type of the value nor of one nested inside it.
C3_Typename ==
    call.op = "introspection_type_name" =>
        /\ call.result = LeafObject(call.self).ty
        /\ call.result \in ConcreteTypes
        /\ \A T \in Wrappers(call.self) : call.result # schema[T].gql_typename

\* A value of U wrapping F wrapping G wrapping an object.
C3_Witness ==
    /\ call.op = "introspection_type_name"
    /\ Depth(call.self) = 3
    /\ TypeOf(call.self) = "U"
    /\ call.result = "B"

(* C6: fragment field collection *)

\* The fields of the fragments on type c, in selection order.
FragmentFields(c, selection_set) ==
    LET on == SelectSeq(selection_set, LAMBDA f : f.type_condition = c)
        F[i \in 0..Len(on)] == IF i = 0 THEN <<>> ELSE F[i - 1] \o on[i].fields
    IN F[Len(on)]

\* C6: collect_all_fields on a value adds to the accumulator exactly what the
\* concrete object it wraps collects: the fields of the fragments on that
\* object's type, in selection order, repeats kept, nothing from fragments on
\* other members, and what was collected before is left in place.
C6_CollectFields ==
    call.op = "collect_all_fields" =>
        call.result =
            call.fields \o FragmentFields(LeafObject(call.self).ty, call.selection_set)

\* A value nested two unions deep, fragments on both members, one field
\* selected twice.
C6_Witness ==
    /\ call.op = "collect_all_fields"
    /\ Depth(call.self) >= 2
    /\ LeafObject(call.self).ty = "A"
    /\ call.selection_set =
        <<[type_condition |-> "B", fields |-> <<"valueA">>],
          [type_condition |-> "A", fields |-> <<"valueA", "valueB">>]>>
    /\ call.result = <<"__typename", "valueA", "valueB">>

----------------------------------------------------------------------------
(* Binding the arguments of one field, call after call *)

ArgNames == <<"first_n", "after", "limit", "before">>

\* How an argument can be declared: required, optional, with a literal
\* default, with a computed default.
ArgDeclarations(j) ==
    {[name |-> ArgNames[j], ty |-> "i32", default |-> NoValue, default_with |-> NoValue],
     [name |-> ArgNames[j], ty |-> "Option<i32>", default |-> NoValue, default_with |-> NoValue],
     [name |-> ArgNames[j], ty |-> "i32", default |-> "10", default_with |-> NoValue],
     [name |-> ArgNames[j], ty |-> "i32", default |-> NoValue, default_with |-> "page_size()"]}

DeclaredArgLists ==
    UNION {{s \in [1..n -> UNION {ArgDeclarations(j) : j \in 1..n}] :
                \A j \in 1..n : s[j] \in ArgDeclarations(j)}
           : n \in 0..MaxArgs}

\* What a query can supply for the declared arguments: 5, or nothing.
SuppliedArguments(args) ==
    UNION {[S -> {IntValue(5)}] : S \in SUBSET {to_camel_case(args[j].name) : j \in 1..Len(args)}}

bind_call(supplied) ==
    /\ bindCall' =
        [supplied |-> supplied, epoch |-> epoch, done |-> TRUE,
         result |-> get_params(generate_args(bindArgs, 1, <<>>).args, 1,
                               [arguments |-> supplied, pos |-> 1], epoch, <<>>)]
    /\ UNCHANGED <<epoch, bindArgs>>

\* The state a computed default reads changes between calls.
env_change ==
    /\ epoch < MaxEpoch
    /\ epoch' = epoch + 1
    /\ UNCHANGED <<bindArgs, bindCall>>

SpecBindInit ==
    /\ BuildIdle
    /\ schema = DefaultSchema
    /\ RegistryIdle
    /\ call = NoCall
    /\ epoch = 0
    /\ bindArgs \in DeclaredArgLists
    /\ bindCall = NoBindCall
    /\ DispatchIdle
    /\ ApqIdle

BindNext ==
    /\ \/ \E supplied \in SuppliedArguments(bindArgs) : bind_call(supplied)
       \/ env_change
    /\ UNCHANGED <<definition, buildResult, schema, registry, regCount, call, dispatchVars, apqVars>>

SpecBind == SpecBindInit /\ [][BindNext]_vars

(* C9: defaults *)

\* What the declaration `a` binds to, given what the query supplies, at the
\* time of the call: the supplied value; else the default, a computed one
\* taken at the time of this call; else failure; else the absent value.
Declares(a) ==
    IF to_camel_case(a.name) \in DOMAIN bindCall.supplied THEN "supplied"
    ELSE IF a.default # NoValue THEN "default"
    ELSE IF a.default_with # NoValue THEN "computed"
    ELSE IF a.ty # "Option<i32>" THEN "missing"
    ELSE "absent"

ExpectedValue(a) ==
    CASE Declares(a) = "supplied" -> bindCall.supplied[to_camel_case(a.name)]
      [] Declares(a) = "default" -> IntValue(10)
      [] Declares(a) = "computed" -> IntValue(20 + bindCall.epoch)
      [] OTHER -> NullValue

FirstMissing ==
    CHOOSE j \in 1..Len(bindArgs) :
        /\ Declares(bindArgs[j]) = "missing"
        /\ \A i \in 1..(j - 1) : Declares(bindArgs[i]) # "missing"

\* C9: each declared argument binds to the supplied value, else to its
\* default (a computed default as evaluated at this call), else to the
\* absent value if its type is optional; a required argument with neither
\* fails the binding with MissingRequiredArgument naming it.
C9_ArgumentDefaults ==
    bindCall.done =>
        IF \E j \in 1..Len(bindArgs) : Declares(bindArgs[j]) = "missing"
        THEN /\ ~bindCall.result.ok
             /\ bindCall.result.error.kind = "MissingRequiredArgument"
             /\ bindCall.result.error.argument = to_camel_case(bindArgs[FirstMissing].name)
        ELSE /\ bindCall.result.ok
             /\ bindCall.result.params =
                    [j \in 1..Len(bindArgs) |->
                        [ident |-> bindArgs[j].name, value |-> ExpectedValue(bindArgs[j])]]

\* Default 10 with nothing supplied binds 10; default 10 with 5 supplied
\* binds 5; a computed default is bound as of the call, after the state it
\* reads has changed.
C9_Witness ==
    /\ bindCall.done
    /\ bindCall.epoch = 2
    /\ Len(bindArgs) = 2
    /\ bindArgs[1].default = "10" /\ bindArgs[2].default_with # NoValue
    /\ DOMAIN bindCall.supplied = {}
    /\ bindCall.result.ok
    /\ bindCall.result.params[1].value = IntValue(10)
    /\ bindCall.result.params[2].value = IntValue(22)

\* The same default, with 5 supplied.
C9_WitnessSupplied ==
    /\ bindCall.done
    /\ Len(bindArgs) = 1
    /\ bindArgs[1].default = "10"
    /\ DOMAIN bindCall.supplied = {"firstN"}
    /\ bindCall.result.params[1].value = IntValue(5)

----------------------------------------------------------------------------
(* The dispatcher under concurrent sibling fields *)

Tasks == 1..NumTasks

FieldRequest(op, name, arguments, outcome, selection_set) ==
    [op |-> op, name |-> name, arguments |-> arguments, outcome |-> outcome,
     selection_set |-> selection_set]

FirstN == [n \in {"firstN"} |-> IntValue(5)]

Limit == [n \in {"limit"} |-> IntValue(5)]

\* The calls the executor makes for one field of a selection set; `outcome`
\* is what the wrapped object's resolver will return: "ok", or its failure.
DispatchRequests ==
    {FieldRequest("resolve_field", "id", <<>>, "ok", <<>>),
     FieldRequest("resolve_field", "valueA", <<>>, "ok", <<>>),
     FieldRequest("resolve_field", "valueA", FirstN, "ok", <<>>),
     FieldRequest("resolve_field", "valueA", <<>>, "err", <<>>),
     FieldRequest("resolve_field", "id", <<>>, "denied", <<>>),
     FieldRequest("resolve_field", "value_a", FirstN, "ok", <<>>),
     FieldRequest("resolve_field", "valueB", FirstN, "ok", <<>>),
     FieldRequest("resolve_field", "valueB", Limit, "ok", <<>>),
     FieldRequest("introspection_type_name", NoValue, <<>>, "ok", <<>>),
     FieldRequest("collect_all_fields", NoValue, <<>>, "ok",
             << [type_condition |-> "A", fields |-> <<"valueA">>],
                [type_condition |-> "B", fields |-> <<"valueB">>] >>)}

\* The programs the dispatcher is run on: Node is registered as "Entity"
\* and declares valueA, with or without valueB.
DispatchSchemas ==
    {sch \in NodeSchemas :
        /\ sch[NodeIdent].gql_typename = "Entity" /\ ~sch[NodeIdent].extends
        /\ \E k \in 1..Len(sch[NodeIdent].fields) : sch[NodeIdent].fields[k].name = "valueA"}

\* The result tree: both members of Node, and a value of the nested union.
ValueLists(sch) ==
    {<<from(sch, NodeIdent, Object("A")), from(sch, NodeIdent, Object("B")),
       from(sch, "U", from(sch, "F", from(sch, "G", Object("A"))))>>}

\* Which call is made on which value: every call on the first value, and on
\* each other value the calls that go through its variants, and one field.
DispatchCalls(n) ==
    {[req |-> req, self |-> self] : req \in DispatchRequests, self \in 1..n}
    \ {c \in [req : DispatchRequests, self : 2..n] :
            c.req.op = "resolve_field" /\ c.req.name # "id"}

NewTask(req, self) ==
    [req |-> req, self |-> self, pc |-> "ready", params |-> <<>>,
     trace |-> <<>>, result |-> Pending]

\* The context of task t's field: its name, arguments, position and path.
Ctx(t) ==
    [name |-> tasks[t].req.name, arguments |-> tasks[t].req.arguments,
     pos |-> t, path |-> <<tasks[t].req.name>>]

Self(t) == values[tasks[t].self]

Field(t) ==
    LET d == schema[TypeOf(Self(t))] IN d.fields[MatchField(d, Ctx(t).name)]

\* A frame that reads the arguments bound by the call that started first.
frame_params_shared(ts, t) == ts[1].params

\* Lines 253-255: the bound arguments are locals of this call's own frame.
frame_params(ts, t) == ts[t].params

\* resolve_field is entered and runs to its first await.
start_resolve_field(t) ==
    /\ tasks[t].pc = "ready"
    /\ tasks[t].req.op = "resolve_field"
    /\ LET s == resolve_field(schema, Self(t), Ctx(t), epoch) IN
        tasks' = [tasks EXCEPT ![t] =
                    [@ EXCEPT !.pc = s.pc, !.params = s.params,
                              !.trace = s.trace, !.result = s.result]]
    /\ UNCHANGED values

\* The wrapped object's method returns.
method_returns(t) ==
    /\ tasks[t].pc = "resolver"
    /\ LET r == resolve_obj(schema, Self(t), Field(t), Ctx(t),
                            frame_params(tasks, t), tasks[t].req.outcome)
       IN tasks' = [tasks EXCEPT ![t] =
                    [@ EXCEPT !.pc = IF r.ok THEN "selection" ELSE "done",
                              !.trace = Append(@, Event("returned", tasks[t].req.outcome)),
                              !.result = r]]
    /\ UNCHANGED values

\* The returned value is resolved against the field's selection set.
output_resolved(t) ==
    /\ tasks[t].pc = "selection"
    /\ tasks' = [tasks EXCEPT ![t] =
                    [@ EXCEPT !.pc = "done",
                              !.trace = Append(@, Event("select", Field(t).method_name)),
                              !.result = output_resolve(tasks[t].result.value,
                                                        tasks[t].req.selection_set)]]
    /\ UNCHANGED values

typename_task(t) ==
    /\ tasks[t].pc = "ready"
    /\ tasks[t].req.op = "introspection_type_name"
    /\ tasks' = [tasks EXCEPT ![t] =
                    [@ EXCEPT !.pc = "done",
                              !.result = Success([NoResultValue EXCEPT !.typename =
                                            introspection_type_name(schema, Self(t))])]]
    /\ UNCHANGED values

collect_task(t) ==
    /\ tasks[t].pc = "ready"
    /\ tasks[t].req.op = "collect_all_fields"
    /\ tasks' = [tasks EXCEPT ![t] =
                    [@ EXCEPT !.pc = "done",
                              !.result = Success([NoResultValue EXCEPT !.fields =
                                            collect_all_fields(schema, Self(t),
                                                tasks[t].req.selection_set, <<>>)])]]
    /\ UNCHANGED values

SpecDispatchInit ==
    /\ BuildIdle
    /\ schema \in DispatchSchemas
    /\ RegistryIdle
    /\ call = NoCall
    /\ BindIdle
    /\ ApqIdle
    /\ values \in ValueLists(schema)
    /\ tasks \in [Tasks -> {NewTask(c.req, c.self) : c \in DispatchCalls(Len(values))}]

DispatchNext ==
    /\ \E t \in Tasks :
        \/ start_resolve_field(t)
        \/ method_returns(t)
        \/ output_resolved(t)
        \/ typename_task(t)
        \/ collect_task(t)
    /\ UNCHANGED <<definition, buildResult, schema, registry, regCount, call, bindVars, apqVars>>

SpecDispatch == SpecDispatchInit /\ [][DispatchNext]_vars

(* C4: a field the interface does not declare *)

IsResolve(t) == tasks[t].req.op = "resolve_field"

DeclaredNames(t) ==
    LET d == schema[TypeOf(Self(t))] IN {d.fields[k].name : k \in 1..Len(d.fields)}

\* C4: once resolve_field has been entered for a name the interface does
\* not declare, the call has failed with FieldNotFound carrying that name
\* and the interface's schema type name at the field's position, and it has
\* bound no argument and called no resolver.
C4_FieldNotFound ==
    \A t \in Tasks :
        (IsResolve(t) /\ tasks[t].pc # "ready" /\ Ctx(t).name \notin DeclaredNames(t)) =>
            /\ tasks[t].pc = "done"
            /\ tasks[t].result =
                Failure([NoError EXCEPT !.kind = "FieldNotFound",
                            !.field_name = tasks[t].req.name,
                            !.object = schema[TypeOf(Self(t))].gql_typename,
                            !.pos = t])
            /\ tasks[t].params = <<>>
            /\ tasks[t].trace = <<>>

\* The Rust name of a declared field is asked for on a Node holding an A,
\* with an argument supplied: the failure names "Entity", not Node or A.
C4_Witness ==
    \E t \in Tasks :
        /\ IsResolve(t) /\ tasks[t].pc = "done"
        /\ tasks[t].req.name = "value_a"
        /\ "valueA" \in DeclaredNames(t)
        /\ TypeOf(Self(t)) = NodeIdent
        /\ tasks[t].result.error.kind = "FieldNotFound"
        /\ tasks[t].result.error.object = "Entity"
        /\ tasks[t].trace = <<>>

(* C8: the order of the steps of one field *)

\* Everything a call for a declared field does when nothing fails: its
\* arguments bound in declaration order, the method called, its return,
\* the selection set resolved.
FullTrace(t) ==
    LET f == Field(t) IN
        [j \in 1..Len(f.args) |-> Event("bind", f.args[j].ident)]
        \o <<Event("invoke", f.method_name),
             Event("returned", tasks[t].req.outcome),
             Event("select", f.method_name)>>

IsPrefix(a, b) == Len(a) <= Len(b) /\ a = SubSeq(b, 1, Len(a))

\* C8: whatever the other calls are doing, a call for a declared field has
\* done a prefix of: bind every argument, call the method, the method
\* returns, resolve the selection set. While the method runs every argument
\* is bound, and the selection set is resolved only after a successful return.
C8_BindResolveSelect ==
    \A t \in Tasks :
        (IsResolve(t) /\ Ctx(t).name \in DeclaredNames(t)) =>
            LET nargs == Len(Field(t).args) IN
            /\ IsPrefix(tasks[t].trace, FullTrace(t))
            /\ tasks[t].pc = "ready" => tasks[t].trace = <<>>
            /\ tasks[t].pc = "resolver" =>
                /\ Len(tasks[t].trace) = nargs + 1
                /\ Len(tasks[t].params) = nargs
            /\ tasks[t].pc = "selection" =>
                /\ Len(tasks[t].trace) = nargs + 2
                /\ tasks[t].req.outcome = "ok"
            /\ Len(tasks[t].trace) = nargs + 3 =>
                /\ tasks[t].pc = "done"
                /\ tasks[t].req.outcome = "ok"
                /\ tasks[t].result.ok
            /\ (tasks[t].pc = "done" /\ tasks[t].result.ok) =>
                tasks[t].trace = FullTrace(t)

\* A call with two arguments has gone through all four steps while another
\* call's method is still running.
C8_Witness ==
    \E t, u \in Tasks :
        /\ t # u
        /\ IsResolve(t) /\ tasks[t].pc = "done" /\ tasks[t].result.ok
        /\ tasks[t].req.name = "valueB"
        /\ tasks[t].trace = <<Event("bind", "first_n"), Event("bind", "limit"),
                              Event("invoke", "value_b"), Event("returned", "ok"),
                              Event("select", "value_b")>>
        /\ tasks[u].pc = "resolver"

(* C10: the dispatcher keeps nothing between calls *)

\* The same call run from start to end with no other call in flight.
RunAlone(sch, self, ctx, req, env) ==
    CASE req.op = "introspection_type_name" ->
            Success([NoResultValue EXCEPT !.typename = introspection_type_name(sch, self)])
      [] req.op = "collect_all_fields" ->
            Success([NoResultValue EXCEPT !.fields =
                        collect_all_fields(sch, self, req.selection_set, <<>>)])
      [] OTHER ->
            LET s == resolve_field(sch, self, ctx, env) IN
            IF s.pc = "done" THEN s.result
            ELSE LET d == sch[TypeOf(self)]
                     r == resolve_obj(sch, self, d.fields[MatchField(d, ctx.name)],
                                      ctx, s.params, req.outcome)
                 IN IF r.ok THEN output_resolve(r.value, req.selection_set) ELSE r

\* C10: a step of one call changes that call's own frame and nothing else:
\* not the program, not the registry, not the values, not another call;
\* and a call that ends has the result it has when run alone on its inputs.
C10_Stateless ==
    [][\E t \in Tasks :
        /\ schema' = schema /\ registry' = registry /\ values' = values
        /\ \A u \in Tasks \ {t} : tasks'[u] = tasks[u]
        /\ tasks'[t].req = tasks[t].req /\ tasks'[t].self = tasks[t].self
        /\ tasks'[t].pc = "done" =>
            tasks'[t].result = RunAlone(schema, Self(t), Ctx(t), tasks[t].req, epoch)
      ]_vars

\* Two calls on the same value for the same field, one with an argument
\* supplied and one without, have both ended, each with its own arguments.
C10_Witness ==
    \E t, u \in Tasks :
        /\ t < u
        /\ tasks[t].self = tasks[u].self
        /\ tasks[t].req.name = "valueA" /\ tasks[u].req.name = "valueA"
        /\ tasks[t].pc = "done" /\ tasks[u].pc = "done"
        /\ tasks[t].result.ok /\ tasks[u].result.ok
        /\ tasks[t].result.value.params = <<[ident |-> "first_n", value |-> IntValue(10)]>>
        /\ tasks[u].result.value.params = <<[ident |-> "first_n", value |-> IntValue(5)]>>

(* C13: the resolver fails *)

\* The method of task t was called and returned the failure `inner`.
ResolverFailed(t, inner) ==
    /\ inner # "ok"
    /\ \E n \in 1..Len(tasks[t].trace) : tasks[t].trace[n] = Event("returned", inner)

\* C13: once the method a call invoked has returned a failure, the call has
\* ended with a Resolver error that carries that failure, the field's
\* position and its path; it is no success, and the field's selection set
\* has not been and is not resolved.
C13_ResolverFailure ==
    \A t \in Tasks :
        \A inner \in {"err", "denied"} :
            (IsResolve(t) /\ ResolverFailed(t, inner)) =>
                /\ tasks[t].pc = "done"
                /\ ~tasks[t].result.ok
                /\ tasks[t].result.error =
                    [NoError EXCEPT !.kind = "Resolver", !.inner = inner,
                                    !.pos = t, !.path = <<tasks[t].req.name>>]
                /\ tasks[t].result.value = NoResultValue
                /\ \A n \in 1..Len(tasks[t].trace) : tasks[t].trace[n].ev # "select"

\* Two calls on fields of the same value: valueA's method failed with "err"
\* after its argument was bound, id's method failed with "denied"; each
\* error carries its own failure, position and path.
C13_Witness ==
    \E t, u \in Tasks :
        /\ t # u
        /\ tasks[t].self = tasks[u].self
        /\ ResolverFailed(t, "err") /\ ResolverFailed(u, "denied")
        /\ tasks[t].trace = <<Event("bind", "first_n"), Event("invoke", "value_a"),
                              Event("returned", "err")>>
        /\ tasks[t].result.error.inner = "err"
        /\ tasks[t].result.error.path = <<"valueA">>
        /\ tasks[u].result.error.inner = "denied"
        /\ tasks[u].result.error.path = <<"id">>
        /\ tasks[t].result.error.pos # tasks[u].result.error.pos

----------------------------------------------------------------------------
(* Apollo persisted queries: the extension and its LRU storage *)

Hashes == {"h1", "h2", "h3"}

Queries == {"", "q1", "q2"}

\* The value of the "persistedQuery" extension; one that does not
\* deserialize into a PersistedQuery is not well formed.
PersistedQuery(version, sha256_hash) ==
    [version |-> version, sha256_hash |-> sha256_hash, well_formed |-> TRUE]

Opaque == [version |-> 0, sha256_hash |-> "", well_formed |-> FALSE]

Keys(cache) == {cache[i].key : i \in 1..Len(cache)}

Lookup(cache, key) ==
    cache[CHOOSE i \in 1..Len(cache) : cache[i].key = key].query

Without(cache, key) == SelectSeq(cache, LAMBDA e : e.key # key)

\* LruCache::get: a hit becomes the most recently used entry.
LruGet(cache, key) ==
    IF key \in Keys(cache)
    THEN [found |-> TRUE, query |-> Lookup(cache, key),
          cache |-> <<[key |-> key, query |-> Lookup(cache, key)]>> \o Without(cache, key)]
    ELSE [found |-> FALSE, query |-> "", cache |-> cache]

\* LruCache::put: the entry becomes the most recently used; a new key in a
\* full cache pushes the least recently used entry out.
LruPut(cache, key, query) ==
    LET rest == Without(cache, key)
        kept == IF Len(rest) >= StorageCap THEN SubSeq(rest, 1, StorageCap - 1) ELSE rest
    IN  <<[key |-> key, query |-> query]>> \o kept

\* Lines 37-41: CacheStorage::get under the lock.
get(cache, key) == LruGet(cache, key)

\* Lines 43-47: CacheStorage::set under the lock.
set(cache, key, query) == LruPut(cache, key, query)

Request(query, extensions) == [query |-> query, extensions |-> extensions]

NoRequest == Request("", <<>>)

Ok(request) == [ok |-> TRUE, request |-> request, error |-> NoValue]

Other(message) == [ok |-> FALSE, request |-> NoRequest, error |-> message]

\* request.extensions.remove(key): the map without the key.
remove(extensions, key) == [k \in (DOMAIN extensions) \ {key} |-> extensions[k]]

\* Lines 77-107: prepare_request, from the storage and the request to the
\* storage and the response.
prepare_request(cache, request) ==
    IF "persistedQuery" \in DOMAIN request.extensions
    THEN LET persisted_query == request.extensions["persistedQuery"]
             taken == [request EXCEPT !.extensions = remove(@, "persistedQuery")]
         IN  IF ~persisted_query.well_formed
             THEN [storage |-> cache, response |-> Other("Invalid PersistedQuery")]
             ELSE IF persisted_query.version # 1
             THEN [storage |-> cache, response |-> Other("Only version 1 is supported")]
             ELSE IF request.query = ""
             THEN LET hit == get(cache, persisted_query.sha256_hash) IN
                  IF hit.found
                  THEN [storage |-> hit.cache,
                        response |-> Ok([taken EXCEPT !.query = hit.query])]
                  ELSE [storage |-> hit.cache,
                        response |-> Other("PersistedQueryNotFound")]
             ELSE [storage |-> set(cache, persisted_query.sha256_hash, request.query),
                   response |-> Ok(taken)]
    ELSE [storage |-> cache, response |-> Ok(request)]

\* The extensions a request may carry: none, another one, a persisted query
\* of version 1 or 2, alone or next to another extension, or a value under
\* "persistedQuery" that is no persisted query.
ExtensionMaps ==
    {<<>>, [k \in {"tracing"} |-> Opaque], [k \in {"persistedQuery"} |-> Opaque],
     [k \in {"persistedQuery"} |-> PersistedQuery(2, "h1")],
     [k \in {"persistedQuery", "tracing"} |->
        IF k = "tracing" THEN Opaque ELSE PersistedQuery(1, "h1")]}
    \cup {[k \in {"persistedQuery"} |-> PersistedQuery(1, h)] : h \in Hashes}

Requests == {Request(q, e) : q \in Queries, e \in ExtensionMaps}

NotPersisted == [all |-> {}, last |-> ""]

NoExchange ==
    [done |-> FALSE, request |-> NoRequest, response |-> Ok(NoRequest),
     before |-> <<>>, after |-> <<>>, known |-> [h \in Hashes |-> NotPersisted]]

\* One request goes through the extension. `persisted` follows the requests
\* and the keys the storage holds, not the queries it holds.
PrepareRequest(request) ==
    LET r == prepare_request(storage, request)
        stores(h) ==
            /\ "persistedQuery" \in DOMAIN request.extensions
            /\ request.extensions["persistedQuery"] = PersistedQuery(1, h)
            /\ request.query # ""
    IN  /\ storage' = r.storage
        /\ exchange' = [done |-> TRUE, request |-> request, response |-> r.response,
                        before |-> storage, after |-> r.storage, known |-> persisted]
        /\ persisted' =
            [h \in Hashes |->
                IF h \notin Keys(r.storage) THEN NotPersisted
                ELSE IF stores(h)
                THEN [all |-> persisted[h].all \cup {request.query}, last |-> request.query]
                ELSE persisted[h]]

SpecApqInit ==
    /\ BuildIdle
    /\ schema = DefaultSchema
    /\ RegistryIdle
    /\ call = NoCall
    /\ BindIdle
    /\ DispatchIdle
    /\ storage = <<>>
    /\ exchange = NoExchange
    /\ persisted = [h \in Hashes |-> NotPersisted]

ApqNext ==
    /\ \E request \in Requests : PrepareRequest(request)
    /\ UNCHANGED <<definition, buildResult, schema, registry, regCount, call,
                   bindVars, dispatchVars>>

SpecApq == SpecApqInit /\ [][ApqNext]_vars

(* C7: the persisted-query protocol *)

HasPersistedQuery(request) ==
    /\ "persistedQuery" \in DOMAIN request.extensions
    /\ request.extensions["persistedQuery"].well_formed
    /\ request.extensions["persistedQuery"].version = 1

HashOf(request) == request.extensions["persistedQuery"].sha256_hash

\* The request stores its query / asks for a query by hash.
Stores(e) == HasPersistedQuery(e.request) /\ e.request.query # ""

Asks(e) == HasPersistedQuery(e.request) /\ e.request.query = ""

\* The queries stored under the asked hash by earlier requests, the hash
\* not having left the storage since.
StoredEarlier(e) == e.known[HashOf(e.request)].all

Consumed(request) == [request EXCEPT !.extensions = remove(@, "persistedQuery")]

\* A miss fails with PersistedQueryNotFound and stores nothing; a request
\* without the extension is passed through and the storage is not touched.
MissAndPassThrough(e) ==
    /\ (Asks(e) /\ HashOf(e.request) \notin Keys(e.before)) =>
        /\ e.response = Other("PersistedQueryNotFound")
        /\ e.after = e.before
    /\ "persistedQuery" \notin DOMAIN e.request.extensions =>
        /\ e.response = Ok(e.request)
        /\ e.after = e.before

PreparedAsCoded ==
    exchange.done =>
        LET e == exchange IN
        /\ MissAndPassThrough(e)
        /\ Stores(e) =>
            /\ e.response = Ok(Consumed(e.request))
            /\ HashOf(e.request) \in Keys(e.after)
            /\ Lookup(e.after, HashOf(e.request)) = e.request.query
        /\ (Asks(e) /\ StoredEarlier(e) # {}) =>
            /\ e.response =
                Ok([Consumed(e.request) EXCEPT
                        !.query = e.known[HashOf(e.request)].last])
            /\ Keys(e.after) = Keys(e.before)
        /\ \A h \in Hashes : h \in Keys(e.before) <=> e.known[h].all # {}

C7_WitnessEvicted ==
    /\ exchange.done
    /\ Asks(exchange) /\ HashOf(exchange.request) = "h1"
    /\ Len(exchange.before) = StorageCap
    /\ exchange.response = Other("PersistedQueryNotFound")
    /\ \E i \in 1..Len(storage) : storage[i].key = "h2"

====
